---- MODULE Spec2Model ----
(***************************************************************************)
(* State-machine model of the General Publish plugin (main.ts): selection   *)
(* of notes by frontmatter flag, mirroring of notes and referenced assets   *)
(* into a git working tree, and the status / add / commit sequence.         *)
(*                                                                         *)
(* A text is a sequence of tokens.  "-" and "LF" are single characters,     *)
(* "publish:", " " and "true" are the pieces the flag literals are made of, *)
(* "x" is any other character, and an embed token such as "![[x.png]]" is   *)
(* one image reference as the image regex extracts it.                      *)
(***************************************************************************)
EXTENDS Integers, Sequences, FiniteSets, TLC

\* ------------------------------------------------------------------ bounds

\* Injected filesystem / git failures per behaviour.
MaxFaults == 2
\* Edits of the corpus by the user while runs are in flight.
MaxEdits == 1

\* ------------------------------------------------------------- the corpus

\* vault.getFiles(), in the vault's enumeration order.
AllFiles == <<"a.md", "b.md", "sub/a.md", "img/x.png", "alt/x.png", "y.png">>

\* vault.getMarkdownFiles(), same order.
MarkdownFiles == <<"a.md", "b.md", "sub/a.md">>

Docs == {MarkdownFiles[i] : i \in 1..Len(MarkdownFiles)}

\* TFile.name: the last segment of TFile.path.
FileName ==
  [p \in {AllFiles[i] : i \in 1..Len(AllFiles)} |->
     CASE p = "a.md" -> "a.md"
       [] p = "b.md" -> "b.md"
       [] p = "sub/a.md" -> "a.md"
       [] p = "img/x.png" -> "x.png"
       [] p = "alt/x.png" -> "x.png"
       [] p = "y.png" -> "y.png"]

\* vault.readBinary(asset): the bytes of each asset, as a one-token sequence.
AssetBytes ==
  [p \in {"img/x.png", "alt/x.png", "y.png"} |->
     CASE p = "img/x.png" -> <<"bytes-img-x">>
       [] p = "alt/x.png" -> <<"bytes-alt-x">>
       [] p = "y.png" -> <<"bytes-y">>]

\* The name captured by the image regex for each embed token
\* (match[1] || match[2]).
RefName ==
  [t \in {"![[x.png]]", "![[missing.png]]", "![](img/x.png)", "![](pics/y.png)",
          "![[alt/x.png]]"} |->
     CASE t = "![[x.png]]" -> "x.png"
       [] t = "![[alt/x.png]]" -> "alt/x.png"
       [] t = "![[missing.png]]" -> "missing.png"
       [] t = "![](img/x.png)" -> "img/x.png"
       [] t = "![](pics/y.png)" -> "pics/y.png"]

\* imageName.split("/").pop()
LastSegment(name) ==
  CASE name = "x.png" -> "x.png"
    [] name = "missing.png" -> "missing.png"
    [] name = "img/x.png" -> "x.png"
    [] name = "alt/x.png" -> "x.png"
    [] name = "pics/y.png" -> "y.png"

\* --------------------------------------------------------- text operators

\* s has pat at position i.
IsAt(s, pat, i) ==
  /\ i >= 1
  /\ i + Len(pat) - 1 <= Len(s)
  /\ SubSeq(s, i, i + Len(pat) - 1) = pat

\* String.prototype.includes
Includes(s, pat) == \E i \in 1..(Len(s) + 1) : IsAt(s, pat, i)

FmOpen == <<"-", "-", "-", "LF">>
FmClose == <<"LF", "-", "-", "-">>

\* Positions at which the closing "\n---" of /^---\n([\s\S]*?)\n---/ can start.
ClosePositions(content) ==
  {k \in 5..Len(content) : IsAt(content, FmClose, k)}

\* content.match(/^---\n([\s\S]*?)\n---/) !== null
HasFrontmatter(content) ==
  IsAt(content, FmOpen, 1) /\ ClosePositions(content) # {}

\* The start of the closing delimiter the lazy group stops at: the first one.
FirstClose(content) ==
  CHOOSE k \in ClosePositions(content) : \A j \in ClosePositions(content) : k <= j

\* frontmatterMatch[1]
FrontmatterBody(content) == SubSeq(content, 5, FirstClose(content) - 1)

FlagSpaced == <<"publish:", " ", "true">>
FlagTight == <<"publish:", "true">>

\* shouldPublishFile, on the text it has read.
ShouldPublishText(content) ==
  IF ~HasFrontmatter(content)
    THEN FALSE
    ELSE \/ Includes(FrontmatterBody(content), FlagSpaced)
         \/ Includes(FrontmatterBody(content), FlagTight)

\* frontmatterMatch[0]: the substring the regex matches.
FrontmatterMatch(content) == SubSeq(content, 1, FirstClose(content) + 3)

\* String.prototype.replace with a string as replacement: the pattern "$&"
\* in the replacement stands for the matched substring. (Of the special
\* patterns only "$&" occurs in the texts of this model.)
RECURSIVE ExpandReplacement(_, _)
ExpandReplacement(replacement, matched) ==
  IF replacement = <<>>
    THEN <<>>
    ELSE (IF Head(replacement) = "$&" THEN matched ELSE <<Head(replacement)>>)
         \o ExpandReplacement(Tail(replacement), matched)

\* addPublishFlag's newContent.
AddFlagText(content) ==
  IF HasFrontmatter(content)
    THEN LET newFrontmatter == FrontmatterBody(content) \o <<"LF">> \o FlagSpaced
         IN ExpandReplacement(FmOpen \o newFrontmatter \o FmClose,
                              FrontmatterMatch(content))
            \o SubSeq(content, FirstClose(content) + 4, Len(content))
    ELSE FmOpen \o FlagSpaced \o FmClose \o <<"LF", "LF">> \o content

\* Mutant of ProcessContent: embeds are rewritten away.
ProcessContentDropsEmbeds(content) ==
  SelectSeq(content, LAMBDA t : t \notin {"![[x.png]]", "![](img/x.png)"})

\* processContent: the content as it is, no link processing.
ProcessContent(content) == content

\* The names the image regex yields, in order of appearance.
RECURSIVE ImageNames(_)
ImageNames(content) ==
  IF content = <<>>
    THEN <<>>
    ELSE IF Head(content) \in DOMAIN RefName
           THEN <<RefName[Head(content)]>> \o ImageNames(Tail(content))
           ELSE ImageNames(Tail(content))

\* allFiles.find(...): the first file of the enumeration, from position i on,
\* that matches; "" when none does.
RECURSIVE FindFrom(_, _)
FindFrom(imageName, i) ==
  IF i > Len(AllFiles)
    THEN ""
    ELSE IF \/ FileName[AllFiles[i]] = imageName
            \/ FileName[AllFiles[i]] = LastSegment(imageName)
            \/ AllFiles[i] = imageName
           THEN AllFiles[i]
           ELSE FindFrom(imageName, i + 1)

\* Mutant of ResolveAsset: no lookup by path first, only the search.
ResolveAssetSearchOnly(imageName) == FindFrom(imageName, 1)

\* The imageFile of one loop iteration of copyReferencedAssets ("" for null).
ResolveAsset(imageName) ==
  IF imageName \in DOMAIN FileName
    THEN imageName
    ELSE FindFrom(imageName, 1)

\* ------------------------------------------------------------ sample texts

TPub == FmOpen \o FlagSpaced \o FmClose \o <<"LF", "x">>
TPubTight == FmOpen \o FlagTight \o FmClose \o <<"LF", "x", "x">>
TPubRefs ==
  FmOpen \o <<"x", "LF">> \o FlagSpaced \o FmClose
  \o <<"LF", "![[x.png]]", "![[missing.png]]", "![](pics/y.png)", "![[alt/x.png]]">>
TNoFlag == FmOpen \o <<"x">> \o FmClose \o <<"LF", "![](img/x.png)">>
TPlain == <<"x", "LF", "publish:", " ", "true">>

Texts == {TPub, TPubTight, TPubRefs, TNoFlag, TPlain}

\* What the user's edit leaves in a note: the flag set, or the flag gone.
EditTexts == {TPub, TNoFlag}

\* --------------------------------------------------------------- settings

\* DEFAULT_SETTINGS.publishFolder and DEFAULT_SETTINGS.assetsFolder.
PublishFolder == "content"
AssetsFolder == "assets"

\* gitRepoPath values: unset, relative, absolute (a path is its segments).
RootUnset == <<>>
RootRelative == <<"repo">>
RootAbsolute == <<"/", "repo">>

\* path.isAbsolute
IsAbsolute(p) == Len(p) > 0 /\ p[1] = "/"

\* --------------------------------------------------------- error messages

NotAbsoluteMsg == <<"Git repository path must be an absolute path">>
FsErrorMsg == <<"EACCES">>

\* The command lines handed to execAsync.
StatusCommand == <<"cd", "&&", "git status --porcelain">>
GitCommands == <<"cd", "&&", "git add .", "&&", "git commit -m">>

\* promisify(exec) rejects with an Error whose message is
\* `Command failed: ${cmd}\n${stderr}`; stdout is not part of it.
ExecError(cmd, stderr) == <<"Command failed:">> \o cmd \o <<"LF">> \o stderr

\* What git says when "git commit" finds nothing to commit.
NothingToCommitText == <<"nothing to commit", ",", "working tree clean">>

\* stderr of "git add . && git commit" on a clean tree: git prints the text
\* above on stdout and leaves stderr empty; a hook or wrapper may put it on
\* stderr.
CleanTreeStderrs == {<<>>, NothingToCommitText}

\* stderr of any other git failure.
FatalStderr == <<"fatal">>

\* The test of commitChanges' catch block: TRUE when the error is swallowed.
IsNothingToCommit(message) ==
  \/ Includes(message, <<"nothing to commit">>)
  \/ Includes(message, <<"working tree clean">>)

\* ------------------------------------------------------------------ state

Runs == {1, 2}

VARIABLES
  settings,   \* this.settings: gitRepoPath, autoCommit
  vault,      \* text of each markdown file of the vault
  target,     \* files under the git root: <<folder, name>> -> content
  dirs,       \* directories created under the git root
  head,       \* the tree of the last commit of the target repository
  commits,    \* number of commits created
  run,        \* per invocation: position and locals of the async function
  faults,     \* failures injected so far
  edits       \* edits of the vault made so far

vars == <<settings, vault, target, dirs, head, commits, run, faults, edits>>

EmptyTree == [p \in {} |-> <<>>]

Notice(kind, n, msg) == [kind |-> kind, n |-> n, msg |-> msg]

IdleRun ==
  [pc |-> "idle", kind |-> "none", activeFile |-> "", files |-> <<>>,
   i |-> 1, k |-> 1, content |-> <<>>, names |-> <<>>, imageFile |-> "",
   statusOutput |-> {}, statusDone |-> FALSE, gitError |-> <<>>,
   gitErrorCause |-> "none", answer |-> "none", overlap |-> FALSE,
   commitResult |-> FALSE, notices |-> <<>>, console |-> <<>>,
   \* history of the invocation, for stating the properties
   writes |-> <<>>, mirrored |-> <<>>, committerCalls |-> 0, gitLog |-> <<>>,
   outcome |-> "none",
   vault0 |-> [d \in Docs |-> <<>>], target0 |-> EmptyTree, commits0 |-> 0,
   faults0 |-> 0]

Vaults ==
  { [d \in Docs |-> CASE d = "a.md" -> TPubRefs
                      [] d = "b.md" -> TPub
                      [] d = "sub/a.md" -> TPlain],
    [d \in Docs |-> CASE d = "a.md" -> TNoFlag
                      [] d = "b.md" -> TPlain
                      [] d = "sub/a.md" -> TPlain],
    [d \in Docs |-> CASE d = "a.md" -> TPub
                      [] d = "b.md" -> TNoFlag
                      [] d = "sub/a.md" -> TPubTight] }

\* The target repository before the first run: empty, or holding an earlier
\* publication of b.md that is already committed.
InitTrees == {EmptyTree, [p \in {<<PublishFolder, "b.md">>} |-> TPub]}

Init ==
  /\ settings \in [gitRepoPath : {RootUnset, RootRelative, RootAbsolute},
                   autoCommit : BOOLEAN]
  /\ vault \in Vaults
  /\ target \in InitTrees
  /\ dirs = IF target = EmptyTree THEN {} ELSE {PublishFolder}
  /\ head = target
  /\ commits = 0
  /\ run = [r \in Runs |-> IdleRun]
  /\ faults = 0
  /\ edits = 0

\* ---------------------------------------------------- steps of an invocation

Say(st, notice) == [st EXCEPT !.notices = Append(@, notice)]

\* The end of publishAllNotes / publishCurrentNote after the commit phase
\* (main.ts 100-106 and 144-146).
Finish(st) ==
  LET success == st.commitResult \/ ~settings.autoCommit
      told ==
        IF st.kind = "all"
          THEN IF success
                 THEN Say(st, Notice("Successfully published", Len(st.files), <<>>))
                 ELSE Say(st, Notice("Copied (no changes to commit)", Len(st.files), <<>>))
          ELSE IF success
                 THEN Say(st, Notice("Successfully published current note", 0, <<>>))
                 ELSE st
  IN [told EXCEPT !.pc = "done"]

\* The catch blocks of publishAllNotes / publishCurrentNote.
Catch(st, message) ==
  LET told ==
        IF st.kind = "all"
          THEN Say(st, Notice("Error publishing notes", 0, message))
          ELSE Say(st, Notice("Error publishing note", 0, message))
  IN [told EXCEPT !.pc = "done",
                  !.console = Append(@, [kind |-> "Publish error", name |-> "",
                                         doc |-> ""])]

\* Mutant of CommitPhase: the autoCommit setting is not consulted.
CommitPhaseAlways(st) ==
  [st EXCEPT !.pc = "status", !.committerCalls = @ + 1]

\* What follows the for loop of publishAllNotes (and the single copy of
\* publishCurrentNote): the commit phase.
CommitPhase(st) ==
  IF settings.autoCommit
    THEN [st EXCEPT !.pc = "status", !.committerCalls = @ + 1]
    ELSE Finish(st)

\* Mutant of AfterCopy: the loop over publishableFiles stops one file early.
AfterCopyOffByOne(st) ==
  LET m == [st EXCEPT !.mirrored = Append(@, st.files[st.k])]
  IN IF m.k < Len(m.files) - 1
       THEN [m EXCEPT !.k = @ + 1, !.pc = "copyRead"]
       ELSE CommitPhase(m)

\* copyFileToRepo has returned for files[k]: next file, or leave the loop.
AfterCopy(st) ==
  LET m == [st EXCEPT !.mirrored = Append(@, st.files[st.k])]
  IN IF m.k < Len(m.files)
       THEN [m EXCEPT !.k = @ + 1, !.pc = "copyRead"]
       ELSE CommitPhase(m)

\* Mutant of StartAll: publish-all takes the first note through the
\* single-note path, confirmation dialog included.
StartAllAsksToFlag(st) ==
  IF settings.gitRepoPath = RootUnset
    THEN [Say(st, Notice("Please configure git repository path", 0, <<>>))
            EXCEPT !.pc = "done"]
    ELSE [st EXCEPT !.pc = "check", !.activeFile = MarkdownFiles[1]]

\* Entry of publishAllNotes (main.ts 76-83).
StartAll(st) ==
  IF settings.gitRepoPath = RootUnset
    THEN [Say(st, Notice("Please configure git repository path", 0, <<>>))
            EXCEPT !.pc = "done"]
    ELSE [st EXCEPT !.pc = "select", !.i = 1, !.files = <<>>]

\* Entry of publishCurrentNote (main.ts 113-126).
StartCurrent(st) ==
  IF st.activeFile = ""
    THEN [Say(st, Notice("No active file", 0, <<>>)) EXCEPT !.pc = "done"]
    ELSE IF settings.gitRepoPath = RootUnset
           THEN [Say(st, Notice("Please configure git repository path", 0, <<>>))
                   EXCEPT !.pc = "done"]
           ELSE [st EXCEPT !.pc = "check"]

Quiet(r) == run[r].pc \in {"idle", "done", "dismissed"}

\* A ribbon click or command callback starts invocation r.
Begin(r, kind, active) ==
  /\ run[r].pc = "idle"
  /\ \A q \in Runs : q < r => run[q].pc # "idle"
  /\ kind = "all" => active = ""
  /\ LET st == [run[r] EXCEPT !.kind = kind, !.activeFile = active,
                              !.overlap = \E q \in Runs : ~Quiet(q),
                              !.vault0 = vault, !.target0 = target,
                              !.commits0 = commits, !.faults0 = faults]
     IN run' = [run EXCEPT ![r] = IF kind = "all" THEN StartAll(st)
                                                   ELSE StartCurrent(st)]
  /\ UNCHANGED <<settings, vault, target, dirs, head, commits, faults, edits>>

\* Invocations one after the other.
Start(r) ==
  /\ \A q \in Runs : Quiet(q)
  /\ \E kind \in {"all", "current"}, active \in Docs \cup {""} :
       Begin(r, kind, active)

\* One iteration of getPublishableFiles: shouldPublishFile(files[i]).
Select(r) ==
  /\ run[r].pc = "select"
  /\ LET st == run[r]
         f == MarkdownFiles[st.i]
         sel == IF ShouldPublishText(vault[f])
                  THEN [st EXCEPT !.files = Append(@, f)]
                  ELSE st
     IN run' = [run EXCEPT ![r] =
          IF st.i < Len(MarkdownFiles)
            THEN [sel EXCEPT !.i = @ + 1]
            ELSE IF Len(sel.files) = 0
                   THEN [Say(sel, Notice("No files found", 0, <<>>))
                           EXCEPT !.pc = "done"]
                   ELSE [Say(sel, Notice("Publishing", Len(sel.files), <<>>))
                           EXCEPT !.pc = "copyRead", !.k = 1]]
  /\ UNCHANGED <<settings, vault, target, dirs, head, commits, faults, edits>>

\* publishCurrentNote: shouldPublishFile(activeFile).
Check(r) ==
  /\ run[r].pc = "check"
  /\ run' = [run EXCEPT ![r] =
       IF ShouldPublishText(vault[run[r].activeFile])
         THEN [@ EXCEPT !.pc = "copyRead", !.files = <<run[r].activeFile>>, !.k = 1]
         ELSE [@ EXCEPT !.pc = "confirm"]]
  /\ UNCHANGED <<settings, vault, target, dirs, head, commits, faults, edits>>

\* ConfirmPublishModal: "Add & Publish".
ConfirmYes(r) ==
  /\ run[r].pc = "confirm"
  /\ run' = [run EXCEPT ![r].pc = "addRead", ![r].answer = "yes"]
  /\ UNCHANGED <<settings, vault, target, dirs, head, commits, faults, edits>>

\* Mutant of ConfirmNo: the "else return" is missing, the run goes on to
\* copyFileToRepo.
ConfirmNoFallsThrough(r) ==
  /\ run[r].pc = "confirm"
  /\ run' = [run EXCEPT ![r].pc = "copyRead", ![r].answer = "no",
                        ![r].files = <<run[r].activeFile>>, ![r].k = 1]
  /\ UNCHANGED <<settings, vault, target, dirs, head, commits, faults, edits>>

\* ConfirmPublishModal: "Cancel".
ConfirmNo(r) ==
  /\ run[r].pc = "confirm"
  /\ run' = [run EXCEPT ![r].pc = "done", ![r].answer = "no"]
  /\ UNCHANGED <<settings, vault, target, dirs, head, commits, faults, edits>>

\* ConfirmPublishModal closed without a button: onClose does not resolve.
Dismiss(r) ==
  /\ run[r].pc = "confirm"
  /\ run' = [run EXCEPT ![r].pc = "dismissed"]
  /\ UNCHANGED <<settings, vault, target, dirs, head, commits, faults, edits>>

\* addPublishFlag: vault.read.
AddRead(r) ==
  /\ run[r].pc = "addRead"
  /\ run' = [run EXCEPT ![r].pc = "addModify",
                        ![r].content = vault[run[r].activeFile]]
  /\ UNCHANGED <<settings, vault, target, dirs, head, commits, faults, edits>>

\* addPublishFlag: vault.modify, then the notice of publishCurrentNote.
AddModify(r) ==
  /\ run[r].pc = "addModify"
  /\ vault' = [vault EXCEPT ![run[r].activeFile] = AddFlagText(run[r].content)]
  /\ run' = [run EXCEPT ![r] =
       [Say(@, Notice("Added publish: true", 0, <<>>))
          EXCEPT !.pc = "copyRead", !.files = <<run[r].activeFile>>, !.k = 1]]
  /\ UNCHANGED <<settings, target, dirs, head, commits, faults, edits>>

\* One filesystem write of the run, as it went.
WriteRec(doc, src, dst, content, ref, ok) ==
  [doc |-> doc, src |-> src, dst |-> dst, content |-> content, ref |-> ref,
   ok |-> ok]

\* fs.promises.mkdir + fs.promises.writeFile can go three ways.
WriteOutcomes == {"ok", "mkdir fails", "writeFile fails"}

\* Mutant of WriteFile: the file is opened for appending.
WriteFileAppend(tree, dst, data) ==
  [p \in DOMAIN tree \cup {dst} |->
     IF p = dst
       THEN IF dst \in DOMAIN tree THEN tree[dst] \o data ELSE data
       ELSE tree[p]]

\* fs.promises.writeFile(targetPath, data): create or overwrite.
WriteFile(tree, dst, data) ==
  [p \in DOMAIN tree \cup {dst} |-> IF p = dst THEN data ELSE tree[p]]

\* copyFileToRepo: vault.read, processContent, the isAbsolute validation.
CopyRead(r) ==
  /\ run[r].pc = "copyRead"
  /\ LET st == [run[r] EXCEPT !.content = vault[run[r].files[run[r].k]]]
     IN run' = [run EXCEPT ![r] =
          IF ~IsAbsolute(settings.gitRepoPath)
            THEN Catch(st, NotAbsoluteMsg)
            ELSE [st EXCEPT !.pc = "docWrite"]]
  /\ UNCHANGED <<settings, vault, target, dirs, head, commits, faults, edits>>

\* copyFileToRepo: mkdir(targetDir), writeFile(targetPath, processedContent);
\* a rejection leaves copyFileToRepo and the caller's loop.
DocWrite(r) ==
  /\ run[r].pc = "docWrite"
  /\ \E how \in WriteOutcomes :
       LET st == run[r]
           f == st.files[st.k]
           dst == <<PublishFolder, FileName[f]>>
           processedContent == ProcessContent(st.content)
           logged == [st EXCEPT !.writes =
                        Append(@, WriteRec(f, f, dst, processedContent, "",
                                           how = "ok"))]
       IN /\ how # "ok" => faults < MaxFaults
          /\ faults' = IF how = "ok" THEN faults ELSE faults + 1
          /\ dirs' = IF how = "mkdir fails" THEN dirs ELSE dirs \cup {PublishFolder}
          /\ target' = IF how = "ok" THEN WriteFile(target, dst, processedContent)
                                      ELSE target
          /\ run' = [run EXCEPT ![r] =
               IF how = "ok"
                 THEN [logged EXCEPT !.pc = "assets",
                                     !.names = ImageNames(st.content)]
                 ELSE Catch(logged, FsErrorMsg)]
  /\ UNCHANGED <<settings, vault, head, commits, edits>>

\* Mutant of SkipUnresolved: the loop is left (break) instead of continued.
SkipUnresolvedBreak(st) ==
  [st EXCEPT !.names = <<>>,
             !.console = Append(@, [kind |-> "Asset not found",
                                    name |-> Head(st.names),
                                    doc |-> st.files[st.k]])]

\* An image name that resolves to no file: warn, go on with the next match.
SkipUnresolved(st) ==
  [st EXCEPT !.names = Tail(@),
             !.console = Append(@, [kind |-> "Asset not found",
                                    name |-> Head(st.names),
                                    doc |-> st.files[st.k]])]

\* Mutant of Assets: copyReferencedAssets is not awaited, copyFileToRepo
\* returns with image names still to process.
AssetsNotAwaited(r) ==
  /\ run[r].pc = "assets"
  /\ run' = [run EXCEPT ![r] = AfterCopy(run[r])]
  /\ UNCHANGED <<settings, vault, target, dirs, head, commits, faults, edits>>

\* One turn of the while loop of copyReferencedAssets, up to its await.
Assets(r) ==
  /\ run[r].pc = "assets"
  /\ LET st == run[r]
     IN run' = [run EXCEPT ![r] =
          IF st.names = <<>>
            THEN AfterCopy(st)
            ELSE IF ResolveAsset(Head(st.names)) # ""
                   THEN [st EXCEPT !.pc = "assetWrite",
                                   !.imageFile = ResolveAsset(Head(st.names))]
                   ELSE SkipUnresolved(st)]
  /\ UNCHANGED <<settings, vault, target, dirs, head, commits, faults, edits>>

\* copyAssetToRepo: readBinary, mkdir, writeFile; a rejection is caught by
\* copyReferencedAssets, logged, and the loop goes on.
AssetWrite(r) ==
  /\ run[r].pc = "assetWrite"
  /\ \E how \in WriteOutcomes :
       LET st == run[r]
           dst == <<AssetsFolder, FileName[st.imageFile]>>
           data == AssetBytes[st.imageFile]
           logged == [st EXCEPT !.writes =
                        Append(@, WriteRec(st.files[st.k], st.imageFile, dst, data,
                                           Head(st.names), how = "ok")),
                                !.names = Tail(@), !.pc = "assets"]
       IN /\ how # "ok" => faults < MaxFaults
          /\ faults' = IF how = "ok" THEN faults ELSE faults + 1
          /\ dirs' = IF how = "mkdir fails" THEN dirs ELSE dirs \cup {AssetsFolder}
          /\ target' = IF how = "ok" THEN WriteFile(target, dst, data) ELSE target
          /\ run' = [run EXCEPT ![r] =
               IF how = "ok"
                 THEN logged
                 ELSE [logged EXCEPT !.console =
                         Append(@, [kind |-> "Failed to copy asset",
                                    name |-> Head(st.names),
                                    doc |-> st.files[st.k]])]]
  /\ UNCHANGED <<settings, vault, head, commits, edits>>

\* git status --porcelain: the paths that differ between work tree and HEAD.
StatusOutput(tree, committed) ==
  {p \in DOMAIN tree \cup DOMAIN committed :
     \/ p \notin DOMAIN tree
     \/ p \notin DOMAIN committed
     \/ tree[p] # committed[p]}

\* commitChanges' catch block: rethrow, or return false.
CommitCatch(st, message) ==
  IF ~IsNothingToCommit(message)
    THEN Catch([st EXCEPT !.outcome = "Failed", !.gitError = message], message)
    ELSE Finish([st EXCEPT !.commitResult = FALSE, !.outcome = "NoChanges",
                           !.gitError = message])

\* Mutant of AfterStatus: the empty status output is not tested.
AfterStatusAlwaysCommit(st, statusOutput) ==
  [st EXCEPT !.pc = "commit"]

\* commitChanges after the status query has answered.
AfterStatus(st, statusOutput) ==
  IF statusOutput = {}
    THEN Finish([st EXCEPT !.commitResult = FALSE, !.outcome = "NoChanges"])
    ELSE [st EXCEPT !.pc = "commit"]

\* commitChanges: execAsync(statusCommand).
Status(r) ==
  /\ run[r].pc = "status"
  /\ \E fails \in BOOLEAN :
       LET st == [run[r] EXCEPT !.gitLog = Append(@, "status")]
       IN /\ fails => faults < MaxFaults
          /\ faults' = IF fails THEN faults + 1 ELSE faults
          /\ run' = [run EXCEPT ![r] =
               IF fails
                 THEN CommitCatch([st EXCEPT !.gitErrorCause = "fatal"],
                                  ExecError(StatusCommand, FatalStderr))
                 ELSE AfterStatus([st EXCEPT !.statusDone = TRUE,
                                             !.statusOutput =
                                                StatusOutput(target, head)],
                                  StatusOutput(target, head))]
  /\ UNCHANGED <<settings, vault, target, dirs, head, commits, edits>>

\* commitChanges: execAsync("cd ... && git add . && git commit -m ...").
Commit(r) ==
  /\ run[r].pc = "commit"
  /\ \E fails \in BOOLEAN, cleanStderr \in CleanTreeStderrs :
       LET st == [run[r] EXCEPT !.gitLog = @ \o <<"add", "commit">>]
           clean == StatusOutput(target, head) = {}
           created == ~fails /\ ~clean
       IN /\ fails => faults < MaxFaults
          /\ faults' = IF fails THEN faults + 1 ELSE faults
          /\ head' = IF created THEN target ELSE head
          /\ commits' = IF created THEN commits + 1 ELSE commits
          /\ run' = [run EXCEPT ![r] =
               IF fails
                 THEN CommitCatch([st EXCEPT !.gitErrorCause = "fatal"],
                                  ExecError(GitCommands, FatalStderr))
                 ELSE IF clean
                        THEN CommitCatch([st EXCEPT !.gitErrorCause = "clean"],
                                         ExecError(GitCommands, cleanStderr))
                        ELSE Finish([st EXCEPT !.commitResult = TRUE,
                                               !.outcome = "Committed"])]
  /\ UNCHANGED <<settings, vault, target, dirs, edits>>

\* The user edits a note while an invocation is suspended at an await.
Edit(d, text) ==
  /\ edits < MaxEdits
  /\ \E r \in Runs : ~Quiet(r)
  /\ vault[d] # text
  /\ vault' = [vault EXCEPT ![d] = text]
  /\ edits' = edits + 1
  /\ UNCHANGED <<settings, target, dirs, head, commits, run, faults>>

\* ------------------------------------------------------------ specifications

Step(r) ==
  \/ Select(r)
  \/ Check(r)
  \/ ConfirmYes(r)
  \/ ConfirmNo(r)
  \/ Dismiss(r)
  \/ AddRead(r)
  \/ AddModify(r)
  \/ CopyRead(r)
  \/ DocWrite(r)
  \/ Assets(r)
  \/ AssetWrite(r)
  \/ Status(r)
  \/ Commit(r)

\* Invocations one after the other, the vault untouched by the user.
Next == \E r \in Runs : Start(r) \/ Step(r)

Spec == Init /\ [][Next]_vars

\* The same, with the user editing notes while an invocation is in flight.
NextEdit ==
  \/ Next
  \/ \E d \in Docs, text \in EditTexts : Edit(d, text)

SpecEdit == Init /\ [][NextEdit]_vars

\* A callback fires whatever the other invocation is doing: nothing in onload
\* keeps two invocations apart.
Launch(r) ==
  \E kind \in {"all", "current"}, active \in Docs \cup {""} :
    Begin(r, kind, active)

NextOverlap == \E r \in Runs : Launch(r) \/ Step(r)

SpecOverlap == Init /\ [][NextOverlap]_vars

\* ------------------------------------------------------------- properties

RootValid == IsAbsolute(settings.gitRepoPath)

Started(r) == run[r].kind # "none"
Done(r) == run[r].pc = "done"
\* The run got past the entry checks of its command.
PastEntry(r) ==
  Started(r) /\ (run[r].kind = "current" => run[r].activeFile # "")

WritesOf(r) == {run[r].writes[j] : j \in 1..Len(run[r].writes)}
MirroredOf(r) == {run[r].mirrored[j] : j \in 1..Len(run[r].mirrored)}
FilesOf(r) == {run[r].files[j] : j \in 1..Len(run[r].files)}
ConsoleOf(r) == {run[r].console[j] : j \in 1..Len(run[r].console)}
FailedWritesOf(r) == {w \in WritesOf(r) : ~w.ok}

\* The run's last notice says that publishing failed.
ReportsError(r) ==
  /\ run[r].notices # <<>>
  /\ run[r].notices[Len(run[r].notices)].kind
       \in {"Error publishing notes", "Error publishing note"}

\* C1 (as claimed): with the root unset or relative, no run creates or
\* modifies a file, neither in the target tree nor in the vault.
C1_NoWriteWhenRootInvalid ==
  \A r \in Runs :
    (Started(r) /\ ~RootValid) =>
      /\ vault = run[r].vault0
      /\ target = run[r].target0
      /\ run[r].writes = <<>>

\* C2 (as claimed): in a publish-all run in which a write of a document failed,
\* every selected document is still written to the target tree.
C2_BatchSurvivesWriteFailure ==
  \A r \in Runs :
    (Done(r) /\ run[r].kind = "all" /\ RootValid /\ FailedWritesOf(r) # {}) =>
      \A f \in FilesOf(r) : \E w \in WritesOf(r) : w.doc = f /\ w.ref = ""

\* C3: the Committer of a run starts only when copyFileToRepo has returned for
\* every selected document with no image name left to process, and once it
\* has started the run performs no further write.
C3_BarrierBeforeCommit ==
  [][\A r \in Runs :
       /\ run[r].committerCalls > 0 => run'[r].writes = run[r].writes
       /\ run'[r].committerCalls > run[r].committerCalls =>
            /\ run'[r].mirrored = run'[r].files
            /\ run'[r].names = <<>>
            /\ \A f \in FilesOf(r) :
                 \E w \in WritesOf(r) : w.doc = f /\ w.ref = "" /\ w.ok]_vars

C3_Witness ==
  \E r \in Runs :
    /\ run[r].committerCalls = 1
    /\ Len(run[r].files) >= 2
    /\ \E w \in WritesOf(r) : w.ref # "" /\ w.ok

\* C4 (as claimed): with auto-commit on and an absolute root, every finished
\* run has invoked the Committer exactly once.
C4_ExactlyOncePerRun ==
  \A r \in Runs :
    (Done(r) /\ PastEntry(r) /\ settings.autoCommit /\ RootValid) =>
      run[r].committerCalls = 1

\* C4 (amended): with auto-commit on and an absolute root, a run invokes the
\* Committer at most once, never once per document; a finished run has invoked
\* it exactly once when copyFileToRepo returned for each of its selected
\* documents, of which there is at least one, and not at all otherwise.
C4_AtMostOncePerRun ==
  \A r \in Runs :
    (settings.autoCommit /\ RootValid) =>
      /\ run[r].committerCalls <= 1
      /\ Done(r) =>
           run[r].committerCalls =
             IF run[r].files # <<>> /\ run[r].mirrored = run[r].files THEN 1 ELSE 0

C4_Witness ==
  \E r \in Runs :
    /\ Done(r) /\ settings.autoCommit /\ RootValid
    /\ Len(run[r].files) >= 2
    /\ run[r].committerCalls = 1

\* C5 (as claimed): every text a publish-all run writes to a document path of
\* the publish folder is one shouldPublishFile accepts.
C5_OnlyFlaggedTextPublished ==
  \A r \in Runs :
    run[r].kind = "all" =>
      \A w \in WritesOf(r) :
        (w.ok /\ w.dst[1] = PublishFolder) => ShouldPublishText(w.content)

\* C6 (as claimed): a finished run in which a document write or an asset copy
\* failed reports a failure, never the outcome of a fully successful run.
C6_FailuresSurfaced ==
  \A r \in Runs :
    (Done(r) /\ FailedWritesOf(r) # {}) => ReportsError(r)

\* The names of the text a run wrote for document d.
NamesWritten(r, d) ==
  UNION { {ImageNames(w.content)[j] : j \in 1..Len(ImageNames(w.content))} :
            w \in {v \in WritesOf(r) : v.doc = d /\ v.ref = "" /\ v.ok} }

Warned(r, d, name) ==
  [kind |-> "Asset not found", name |-> name, doc |-> d] \in ConsoleOf(r)

\* C7: an image name that resolves to no vault file is not fatal.  Whenever
\* the warning is logged the owning document is already in the publish
\* folder; a run with no injected failure and an absolute root mirrors every
\* selected document; and for each mirrored document every unresolved name
\* was warned about and written nowhere, while every other name had its asset
\* copied from the file it resolves to.
C7_UnresolvedAssetNonFatal ==
  \A r \in Runs :
    /\ \A e \in ConsoleOf(r) :
         e.kind = "Asset not found" =>
           /\ \E w \in WritesOf(r) : w.doc = e.doc /\ w.ref = "" /\ w.ok
           /\ <<PublishFolder, FileName[e.doc]>> \in DOMAIN target
    /\ (Done(r) /\ RootValid /\ faults = run[r].faults0) =>
         run[r].mirrored = run[r].files
    /\ \A d \in MirroredOf(r) :
         \A name \in NamesWritten(r, d) :
           IF name \notin DOMAIN FileName
              /\ \A p \in DOMAIN FileName :
                   FileName[p] # name /\ FileName[p] # LastSegment(name)
             THEN /\ Warned(r, d, name)
                  /\ \A w \in WritesOf(r) : w.doc = d => w.ref # name
             ELSE /\ ~Warned(r, d, name)
                  /\ \E w \in WritesOf(r) :
                       w.doc = d /\ w.ref = name /\ w.src \in DOMAIN AssetBytes

C7_Witness ==
  \E r \in Runs :
    /\ Done(r)
    /\ "a.md" \in MirroredOf(r)
    /\ Warned(r, "a.md", "missing.png")
    /\ \E w \in WritesOf(r) :
         w.doc = "a.md" /\ w.ref = "pics/y.png" /\ w.ok

\* C8: when the status query of a run reports no change, the run ends with
\* NoChanges having executed no git command but the query: nothing is staged,
\* no commit is created.
C8_CleanStatusWritesNothing ==
  \A r \in Runs :
    (run[r].statusDone /\ run[r].statusOutput = {}) =>
      /\ run[r].gitLog = <<"status">>
      /\ run[r].outcome = "NoChanges"
      /\ run[r].commitResult = FALSE
      /\ Done(r)

C8_Witness ==
  \E r \in Runs :
    /\ run[r].statusDone /\ run[r].statusOutput = {}
    /\ run[r].writes # <<>>
    /\ Done(r)

\* C9 (as claimed): a commit step that fails because nothing is left to
\* commit (the tree was dirty at the status query and clean at the commit)
\* ends the run with NoChanges and reports no error; any other git failure
\* ends it with Failed, reported to the user, and every file the run wrote is
\* still in the target tree.
C9_CommitFailureClassified ==
  \A r \in Runs :
    /\ run[r].gitErrorCause = "clean" =>
         /\ Done(r)
         /\ run[r].outcome = "NoChanges"
         /\ run[r].commitResult = FALSE
         /\ ~ReportsError(r)
    /\ run[r].gitErrorCause = "fatal" =>
         /\ Done(r)
         /\ run[r].outcome = "Failed"
         /\ ReportsError(r)
         /\ \A w \in WritesOf(r) : w.ok => w.dst \in DOMAIN target

SameCommandTwice ==
  /\ Done(1) /\ Done(2)
  /\ run[1].kind = run[2].kind
  /\ run[1].activeFile = run[2].activeFile
  /\ run[1].files # <<>> /\ run[2].files # <<>>
  /\ settings.autoCommit /\ RootValid
  /\ vault = run[2].vault0
  /\ faults = run[2].faults0

\* C10 (as claimed): the same command run twice in sequence on an unchanged
\* vault, the second time with no write and no git command failing, ends its
\* second run with NoChanges, creates no commit in it and leaves the target
\* tree as the first run left it.
C10_SecondRunNoChanges ==
  SameCommandTwice =>
    /\ run[2].outcome = "NoChanges"
    /\ commits = run[2].commits0
    /\ target = run[2].target0

\* C10 (amended): the same holds when no filesystem write and no git command
\* failed in the first run either.
C10_SecondRunNoChangesAfterSuccess ==
  (SameCommandTwice /\ faults = 0) =>
    /\ run[2].outcome = "NoChanges"
    /\ commits = run[2].commits0
    /\ target = run[2].target0

C10_Witness ==
  /\ SameCommandTwice
  /\ faults = 0
  /\ run[1].outcome = "Committed"
  /\ run[2].outcome = "NoChanges"
  /\ Len(run[2].files) >= 2
  /\ \E w \in WritesOf(2) : w.ref # "" /\ w.ok

\* No run has been started after run r.
Latest(r) == \A q \in Runs : q > r => run[q].pc = "idle"

\* C11: a publish-all run never enters the confirmation / flag-adding steps
\* and, up to the start of the next run, every note of the vault has the text
\* it had when the run began, whether the run succeeds or fails.
C11_PublishAllLeavesVault ==
  \A r \in Runs :
    run[r].kind = "all" =>
      /\ run[r].pc \notin {"check", "confirm", "dismissed", "addRead", "addModify"}
      /\ run[r].answer = "none"
      /\ Latest(r) => vault = run[r].vault0

C11_Witness ==
  \E r \in Runs :
    /\ run[r].kind = "all" /\ Done(r) /\ Latest(r)
    /\ \E w \in WritesOf(r) : w.ok /\ w.ref # ""
    /\ \E d \in Docs : ~ShouldPublishText(vault[d])

\* C12: a publish-current run whose confirmation was answered Cancel is over,
\* has written nothing, has not invoked the Committer, and up to the start of
\* the next run the vault and the target tree are as they were at its start.
C12_CancelChangesNothing ==
  \A r \in Runs :
    run[r].answer = "no" =>
      /\ Done(r)
      /\ run[r].writes = <<>>
      /\ run[r].committerCalls = 0
      /\ run[r].gitLog = <<>>
      /\ Latest(r) => (vault = run[r].vault0 /\ target = run[r].target0
                       /\ commits = run[r].commits0)

C12_Witness ==
  \E r \in Runs :
    /\ run[r].answer = "no" /\ run[r].kind = "current"
    /\ ~ShouldPublishText(vault[run[r].activeFile])
    /\ RootValid /\ settings.autoCommit

\* C13: with auto-commit off no run invokes the Committer or executes a git
\* command, and a finished run with an absolute root whose document writes
\* succeeded has mirrored every selected document and reports success.
C13_AutoCommitOffStillMirrors ==
  ~settings.autoCommit =>
    \A r \in Runs :
      /\ run[r].committerCalls = 0
      /\ run[r].gitLog = <<>>
      /\ run[r].outcome = "none"
      /\ (Done(r) /\ RootValid /\ run[r].files # <<>>
          /\ \A w \in FailedWritesOf(r) : w.ref # "") =>
           /\ run[r].mirrored = run[r].files
           /\ \A f \in FilesOf(r) :
                \E w \in WritesOf(r) : w.doc = f /\ w.ref = "" /\ w.ok
           /\ run[r].notices[Len(run[r].notices)].kind
                \in {"Successfully published", "Successfully published current note"}

C13_Witness ==
  \E r \in Runs :
    /\ ~settings.autoCommit /\ Done(r)
    /\ Len(run[r].files) >= 2 /\ run[r].mirrored = run[r].files
    /\ \E w \in WritesOf(r) : w.ok /\ w.ref # ""
    /\ commits = 0

\* C14: a step that writes a document successfully leaves at
\* <publishFolder>/<filename> exactly the text the note has in the vault, and
\* a step that writes an asset successfully leaves at <assetsFolder>/<filename>
\* exactly the bytes of the resolved source asset.
C14_WrittenEqualsSource ==
  [][\A r \in Runs :
       Len(run'[r].writes) > Len(run[r].writes) =>
         LET w == run'[r].writes[Len(run'[r].writes)]
         IN w.ok =>
              IF w.ref = ""
                THEN /\ w.dst = <<PublishFolder, FileName[w.doc]>>
                     /\ target'[w.dst] = vault[w.doc]
                     /\ w.content = vault[w.doc]
                ELSE /\ w.dst = <<AssetsFolder, FileName[w.src]>>
                     /\ target'[w.dst] = AssetBytes[w.src]
                     /\ w.content = AssetBytes[w.src]]_vars

C14_Witness ==
  \E r \in Runs :
    /\ \E w \in WritesOf(r) :
         /\ w.ok /\ w.ref = "" /\ w.content = TPubRefs
         /\ target[w.dst] = TPubRefs
    /\ \E w \in WritesOf(r) :
         /\ w.ok /\ w.ref = "pics/y.png"
         /\ target[w.dst] = <<"bytes-y">>

\* ------------------------------------------ flag detection on many texts

\* The lines note texts are built from: delimiter lines, a line that only
\* starts like a delimiter, the two flag spellings, other text, an empty
\* line, and a line holding the characters "$&".
GenLines ==
  { <<"-", "-", "-">>, <<"-", "-", "-", "x">>, FlagSpaced, FlagTight,
    <<"x">>, <<>>, <<"$&">> }

MaxLines == 4

\* lines.join("\n")
RECURSIVE JoinLines(_)
JoinLines(lines) ==
  IF Len(lines) = 0
    THEN <<>>
    ELSE IF Len(lines) = 1
           THEN lines[1]
           ELSE lines[1] \o <<"LF">> \o JoinLines(Tail(lines))

\* Every text of one to MaxLines lines.
GenTexts ==
  { JoinLines(ls) : ls \in UNION { [1..n -> GenLines] : n \in 1..MaxLines } }

\* The active note a.md holds any generated text; absolute root.
InitFlag ==
  /\ settings \in { [gitRepoPath |-> RootAbsolute, publishFolder |-> PublishFolder,
                     assetsFolder |-> AssetsFolder, autoCommit |-> FALSE] }
  /\ vault \in { [d \in Docs |-> IF d = "a.md" THEN t ELSE TPlain] : t \in GenTexts }
  /\ target = EmptyTree
  /\ dirs = {}
  /\ head = EmptyTree
  /\ commits = 0
  /\ run = [r \in Runs |-> IdleRun]
  /\ faults = 0
  /\ edits = 0

\* Publish-current on a.md, up to the write of the note.
NextFlag ==
  \/ Begin(1, "current", "a.md")
  \/ Check(1)
  \/ ConfirmYes(1)
  \/ ConfirmNo(1)
  \/ Dismiss(1)
  \/ AddRead(1)
  \/ AddModify(1)
  \/ CopyRead(1)
  \/ DocWrite(1)

SpecFlag == InitFlag /\ [][NextFlag]_vars

\* content.split("\n"), from position i of the text on.
RECURSIVE SplitLines(_)
SplitLines(content) ==
  IF \A i \in 1..Len(content) : content[i] # "LF"
    THEN <<content>>
    ELSE LET i == CHOOSE i \in 1..Len(content) :
                    /\ content[i] = "LF"
                    /\ \A j \in 1..(i - 1) : content[j] # "LF"
         IN <<SubSeq(content, 1, i - 1)>>
            \o SplitLines(SubSeq(content, i + 1, Len(content)))

\* The reference definition of publishable: the first line is exactly ---,
\* a later line is exactly ---, and the lines between the first line and the
\* first such later line contain one of the two flag literals.
ReferencePublishable(content) ==
  LET lines == SplitLines(content)
      delimiter == <<"-", "-", "-">>
      closers == {j \in 2..Len(lines) : lines[j] = delimiter}
  IN /\ lines[1] = delimiter
     /\ closers # {}
     /\ LET j == CHOOSE j \in closers : \A k \in closers : j <= k
            body == JoinLines(SubSeq(lines, 2, j - 1))
        IN Includes(body, FlagSpaced) \/ Includes(body, FlagTight)

\* C15: the verdict of shouldPublishFile on the active note is the verdict of
\* the reference definition: the run goes on to the copy without a
\* confirmation only for a reference-publishable text, and asks for
\* confirmation only for a text that is not.
C15_DetectorMatchesReference ==
  \A r \in Runs :
    run[r].kind = "current" =>
      /\ (run[r].pc = "copyRead" /\ run[r].answer = "none")
           => ReferencePublishable(vault[run[r].activeFile])
      /\ run[r].pc = "confirm"
           => ~ReferencePublishable(vault[run[r].activeFile])

\* The run has gone through addPublishFlag.
Flagged(r) ==
  /\ run[r].answer = "yes"
  /\ run[r].pc \notin {"addRead", "addModify"}

\* C18: on the confirm path nothing is written to the target before the note
\* is rewritten; the rewritten note is publishable for shouldPublishFile; and
\* the text written to the target is the rewritten text.
C18_RewriteThenMirror ==
  \A r \in Runs :
    /\ run[r].pc \in {"confirm", "addRead", "addModify"} => run[r].writes = <<>>
    /\ Flagged(r) =>
         /\ vault[run[r].activeFile] = AddFlagText(run[r].vault0[run[r].activeFile])
         /\ ShouldPublishText(vault[run[r].activeFile])
         /\ \A w \in WritesOf(r) :
              (w.ref = "" /\ w.ok) =>
                /\ w.content = vault[run[r].activeFile]
                /\ target[w.dst] = vault[run[r].activeFile]

\* C16: within one run, two successful writes that come from different
\* source files (notes or resolved assets) go to different target paths.
C16_DistinctTargetPaths ==
  \A r \in Runs :
    \A w1, w2 \in {w \in WritesOf(r) : w.ok} :
      w1.src # w2.src => w1.dst # w2.dst

\* The resolution order of the reference: the file whose path is the name;
\* otherwise the first file of the enumeration whose filename is the name or
\* the name's last segment; otherwise none ("").
ReferenceResolve(name) ==
  LET byName == {i \in 1..Len(AllFiles) :
                   FileName[AllFiles[i]] \in {name, LastSegment(name)}}
  IN IF \E i \in 1..Len(AllFiles) : AllFiles[i] = name
       THEN name
       ELSE IF byName = {}
              THEN ""
              ELSE AllFiles[CHOOSE i \in byName : \A j \in byName : i <= j]

\* C17: every asset a run copies for an image name is the file the reference
\* order resolves the name to, a name is reported as not found only when the
\* reference order resolves it to nothing, and the same name resolves to the
\* same file every time, in whichever run.
C17_ResolutionOrder ==
  /\ \A r \in Runs :
       /\ run[r].pc = "assetWrite" =>
            /\ run[r].imageFile # ""
            /\ run[r].imageFile = ReferenceResolve(Head(run[r].names))
       /\ \A w \in WritesOf(r) : w.ref # "" => w.src = ReferenceResolve(w.ref)
       /\ \A c \in ConsoleOf(r) :
            c.kind = "Asset not found" => ReferenceResolve(c.name) = ""
  /\ \A r, q \in Runs :
       \A w \in WritesOf(r), v \in WritesOf(q) :
         (w.ref # "" /\ w.ref = v.ref) => w.src = v.src

C17_Witness ==
  \E r \in Runs :
    /\ \E w \in WritesOf(r) : w.ref = "x.png" /\ w.src = "img/x.png"
    /\ \E w \in WritesOf(r) : w.ref = "alt/x.png" /\ w.src = "alt/x.png"
    /\ \E w \in WritesOf(r) : w.ref = "pics/y.png" /\ w.src = "y.png"
    /\ \E c \in ConsoleOf(r) : c.kind = "Asset not found" /\ c.name = "missing.png"
    /\ \E q \in Runs : q # r /\ \E w \in WritesOf(q) : w.ref = "x.png"

\* ------------------------------------------------------------- fairness

\* A pending continuation of an async function is run by the event loop, and
\* an open dialog is eventually closed by the user in one of the three ways.
Fairness == \A r \in Runs : WF_vars(Step(r))

SpecFair == Init /\ [][Next]_vars /\ Fairness

\* C19: a publish-current run that has opened the confirmation dialog
\* eventually terminates, whichever way the dialog is closed.
C19_ConfirmationEventuallyResolved ==
  \A r \in Runs : (run[r].pc = "confirm") ~> (run[r].pc = "done")

\* C20: two overlapping runs on one root with auto-commit on and the vault
\* unchanged: once both have terminated and neither reported a commit
\* failure, the working tree has nothing uncommitted.
C20_OverlapLeavesTreeClean ==
  ( /\ settings.autoCommit /\ RootValid
    /\ run[2].overlap
    /\ \A r \in Runs : Done(r) /\ run[r].writes # <<>> /\ run[r].outcome # "Failed"
    /\ vault = run[1].vault0 )
  => StatusOutput(target, head) = {}

====
